---- MODULE Spec2Model ----
(***************************************************************************)
(* Two-player console tic-tac-toe (src/script.js): the gameBoard module,   *)
(* the Game module (setupPlayer, start, gameLoop, restart, checkWinner)    *)
(* and the blocking prompt/confirm/alert dialogue with the operator.       *)
(***************************************************************************)
EXTENDS Integers, Sequences, FiniteSets, TLC

\* ------------------------------------------------------------------------
\* Bounds of the model
\* ------------------------------------------------------------------------
\* How far outside 1..9 the integers typed at the turn prompt range.
CellSlack == 1
\* How many times "Play again?" may be answered yes in one run.
MaxRestarts == 1
\* How many rounds of identical names the operator may enter in one setup.
MaxSameNames == 2

\* ------------------------------------------------------------------------
\* JavaScript values
\* ------------------------------------------------------------------------
\* A JS number as produced by parseInt: <<n>> for the integer n, <<>> for NaN.
Num(n) == <<n>>
NaN == <<>>
isNaN(x) == x = NaN

\* x < y, x > y, x - y of JavaScript: a comparison with NaN is false and
\* arithmetic on NaN yields NaN.
JsLt(x, y) == ~isNaN(x) /\ ~isNaN(y) /\ x[1] < y[1]
JsGt(x, y) == ~isNaN(x) /\ ~isNaN(y) /\ x[1] > y[1]
JsSub(x, y) == IF isNaN(x) \/ isNaN(y) THEN NaN ELSE Num(x[1] - y[1])

\* The value of an out-of-range array read, and of an unset reference.
Undefined == "undefined"
Null == [null |-> TRUE]

\* ------------------------------------------------------------------------
\* createPlayer
\* ------------------------------------------------------------------------
\* Mutant: the two fields are swapped.
createPlayerSwapped(name, playerMark) == [name |-> playerMark, mark |-> name]

createPlayer(name, playerMark) == [name |-> name, mark |-> playerMark]
getPlayerName(player) == player.name
getPlayerMark(player) == player.mark

\* ------------------------------------------------------------------------
\* gameBoard
\* ------------------------------------------------------------------------
rows == 3
cols == 3
totalCellCount == rows * cols

Empty == " "
RowIdx == 0 .. (rows - 1)
ColIdx == 0 .. (cols - 1)

\* The grid as first created: every cell empty.
EmptyBoard == [i \in RowIdx |-> [j \in ColIdx |-> Empty]]

\* board[rowIndex][colIndex] as JavaScript reads it: a column index that is
\* not an index of the row (negative, too large, NaN) reads undefined.
ReadCell(b, rowIndex, colIndex) ==
    IF ~isNaN(colIndex) /\ colIndex[1] \in ColIdx
    THEN b[rowIndex][colIndex[1]]
    ELSE Undefined

\* Mutant: the row loop runs while cellNumber >= rows (off by one).
RECURSIVE RowLoopGeq(_, _)
RowLoopGeq(rowIndex, cellNumber) ==
    IF JsGt(cellNumber, Num(rows)) \/ cellNumber = Num(rows)
    THEN RowLoopGeq(rowIndex + 1, JsSub(cellNumber, Num(rows)))
    ELSE <<rowIndex, cellNumber>>

\* The loop `while (cellNumber > rows) { rowIndex++; cellNumber -= rows; }`:
\* the pair <<rowIndex, cellNumber>> it ends with.
RECURSIVE RowLoop(_, _)
RowLoop(rowIndex, cellNumber) ==
    IF JsGt(cellNumber, Num(rows))
    THEN RowLoop(rowIndex + 1, JsSub(cellNumber, Num(rows)))
    ELSE <<rowIndex, cellNumber>>

\* Result of one setPlayerPosition call on grid b with counter cnt: the new
\* grid, the new counter, the returned boolean, and whether the call raised
\* (reading a row that does not exist raises a TypeError).
CallResult(b, cnt, r, t) ==
    [board |-> b, filledCellCount |-> cnt, ret |-> r, threw |-> t]

\* Mutant: the range guard answers true for an invalid cell number.
setPlayerPositionGuardTrue(b, cnt, cellNumber, playerMark) ==
    IF JsLt(cellNumber, Num(1)) \/ JsGt(cellNumber, Num(9))
    THEN CallResult(b, cnt, TRUE, FALSE)
    ELSE LET after == RowLoop(0, cellNumber)
             rowIndex == after[1]
             colIndex == JsSub(after[2], Num(1))
         IN  IF ReadCell(b, rowIndex, colIndex) = Empty
             THEN CallResult([b EXCEPT ![rowIndex][colIndex[1]] = playerMark],
                             cnt + 1, TRUE, FALSE)
             ELSE CallResult(b, cnt, FALSE, FALSE)

\* Mutant: the mark is written without testing that the cell is empty.
setPlayerPositionOverwrite(b, cnt, cellNumber, playerMark) ==
    IF JsLt(cellNumber, Num(1)) \/ JsGt(cellNumber, Num(9))
    THEN CallResult(b, cnt, FALSE, FALSE)
    ELSE LET after == RowLoop(0, cellNumber)
             rowIndex == after[1]
             colIndex == JsSub(after[2], Num(1))
         IN  IF ReadCell(b, rowIndex, colIndex) # Undefined
             THEN CallResult([b EXCEPT ![rowIndex][colIndex[1]] = playerMark],
                             cnt + 1, TRUE, FALSE)
             ELSE CallResult(b, cnt, FALSE, FALSE)

\* Mutant: the counter is not incremented on a successful placement.
setPlayerPositionNoCount(b, cnt, cellNumber, playerMark) ==
    IF JsLt(cellNumber, Num(1)) \/ JsGt(cellNumber, Num(9))
    THEN CallResult(b, cnt, FALSE, FALSE)
    ELSE LET after == RowLoop(0, cellNumber)
             rowIndex == after[1]
             colIndex == JsSub(after[2], Num(1))
         IN  IF ReadCell(b, rowIndex, colIndex) = Empty
             THEN CallResult([b EXCEPT ![rowIndex][colIndex[1]] = playerMark],
                             cnt, TRUE, FALSE)
             ELSE CallResult(b, cnt, FALSE, FALSE)

\* Mutant: the counter is incremented by two on a successful placement.
setPlayerPositionCountTwice(b, cnt, cellNumber, playerMark) ==
    IF JsLt(cellNumber, Num(1)) \/ JsGt(cellNumber, Num(9))
    THEN CallResult(b, cnt, FALSE, FALSE)
    ELSE LET after == RowLoop(0, cellNumber)
             rowIndex == after[1]
             colIndex == JsSub(after[2], Num(1))
         IN  IF ReadCell(b, rowIndex, colIndex) = Empty
             THEN CallResult([b EXCEPT ![rowIndex][colIndex[1]] = playerMark],
                             cnt + 2, TRUE, FALSE)
             ELSE CallResult(b, cnt, FALSE, FALSE)

\* Mutant: the test of the cell is inverted: only an occupied cell is written.
setPlayerPositionInverted(b, cnt, cellNumber, playerMark) ==
    IF JsLt(cellNumber, Num(1)) \/ JsGt(cellNumber, Num(9))
    THEN CallResult(b, cnt, FALSE, FALSE)
    ELSE LET after == RowLoop(0, cellNumber)
             rowIndex == after[1]
             colIndex == JsSub(after[2], Num(1))
         IN  IF ReadCell(b, rowIndex, colIndex) \in {"X", "O"}
             THEN CallResult([b EXCEPT ![rowIndex][colIndex[1]] = playerMark],
                             cnt + 1, TRUE, FALSE)
             ELSE CallResult(b, cnt, FALSE, FALSE)

\* Mutant: the cell is tested for holding no mark instead of for being
\* empty, so an undefined read passes: the write then adds a property to the
\* row array (no cell changes), the counter grows and true is returned.
setPlayerPositionNotOccupied(b, cnt, cellNumber, playerMark) ==
    IF JsLt(cellNumber, Num(1)) \/ JsGt(cellNumber, Num(9))
    THEN CallResult(b, cnt, FALSE, FALSE)
    ELSE LET after == RowLoop(0, cellNumber)
             rowIndex == after[1]
             colIndex == JsSub(after[2], Num(1))
         IN  IF rowIndex \notin RowIdx
             THEN CallResult(b, cnt, FALSE, TRUE)
             ELSE IF ReadCell(b, rowIndex, colIndex) = Empty
             THEN CallResult([b EXCEPT ![rowIndex][colIndex[1]] = playerMark],
                             cnt + 1, TRUE, FALSE)
             ELSE IF ReadCell(b, rowIndex, colIndex) = Undefined
             THEN CallResult(b, cnt + 1, TRUE, FALSE)
             ELSE CallResult(b, cnt, FALSE, FALSE)

\* setPlayerPosition(cellNumber, playerMark)
setPlayerPosition(b, cnt, cellNumber, playerMark) ==
    IF JsLt(cellNumber, Num(1)) \/ JsGt(cellNumber, Num(9))
    THEN CallResult(b, cnt, FALSE, FALSE)
    ELSE LET after == RowLoop(0, cellNumber)
             rowIndex == after[1]
             colIndex == JsSub(after[2], Num(1))
         IN  IF rowIndex \notin RowIdx
             THEN CallResult(b, cnt, FALSE, TRUE)
             ELSE IF ReadCell(b, rowIndex, colIndex) = Empty
             THEN CallResult([b EXCEPT ![rowIndex][colIndex[1]] = playerMark],
                             cnt + 1, TRUE, FALSE)
             ELSE CallResult(b, cnt, FALSE, FALSE)

\* Mutant: resetBoard clears the cells but forgets the counter.
resetBoardKeepCount(b, cnt) ==
    [board |-> [i \in DOMAIN b |-> [j \in DOMAIN b[i] |-> Empty]],
     filledCellCount |-> cnt]

\* resetBoard(): the grid and the counter it leaves.
resetBoard(b, cnt) ==
    [board |-> [i \in DOMAIN b |-> [j \in DOMAIN b[i] |-> Empty]],
     filledCellCount |-> 0]

\* ------------------------------------------------------------------------
\* Game: winPositions and checkWinner
\* ------------------------------------------------------------------------
\* Mutant: the last diagonal is mistyped as a copy of the third column.
winPositionsTypo ==
    << << <<0, 0>>, <<0, 1>>, <<0, 2>> >>,
       << <<1, 0>>, <<1, 1>>, <<1, 2>> >>,
       << <<2, 0>>, <<2, 1>>, <<2, 2>> >>,
       << <<0, 0>>, <<1, 0>>, <<2, 0>> >>,
       << <<0, 1>>, <<1, 1>>, <<2, 1>> >>,
       << <<0, 2>>, <<1, 2>>, <<2, 2>> >>,
       << <<0, 0>>, <<1, 1>>, <<2, 2>> >>,
       << <<0, 2>>, <<1, 2>>, <<2, 2>> >> >>

winPositions ==
    << << <<0, 0>>, <<0, 1>>, <<0, 2>> >>,
       << <<1, 0>>, <<1, 1>>, <<1, 2>> >>,
       << <<2, 0>>, <<2, 1>>, <<2, 2>> >>,
       << <<0, 0>>, <<1, 0>>, <<2, 0>> >>,
       << <<0, 1>>, <<1, 1>>, <<2, 1>> >>,
       << <<0, 2>>, <<1, 2>>, <<2, 2>> >>,
       << <<0, 0>>, <<1, 1>>, <<2, 2>> >>,
       << <<0, 2>>, <<1, 1>>, <<2, 0>> >> >>

\* The inner loop of checkWinner: positionMatched after the first n
\* coordinates of pos.
RECURSIVE positionMatched(_, _, _, _)
positionMatched(b, pos, mark, n) ==
    IF n = 0 THEN 0
    ELSE positionMatched(b, pos, mark, n - 1)
         + (IF b[pos[n][1]][pos[n][2]] = mark THEN 1 ELSE 0)

\* The outer loop of checkWinner from the i-th winning position on.
RECURSIVE checkFrom(_, _, _)
checkFrom(b, mark, i) ==
    IF i > Len(winPositions) THEN FALSE
    ELSE IF positionMatched(b, winPositions[i], mark, Len(winPositions[i])) = 3
         THEN TRUE
         ELSE checkFrom(b, mark, i + 1)

\* checkWinner(player)
checkWinner(b, player) == checkFrom(b, getPlayerMark(player), 1)

\* ------------------------------------------------------------------------
\* State
\* ------------------------------------------------------------------------
VARIABLES
    board,                     \* gameBoard: the 3x3 grid
    filledCellCount,           \* gameBoard: the counter of filled cells
    player1,                   \* Game: the "X" player, or Null
    player2,                   \* Game: the "O" player, or Null
    pc,                        \* where the single thread of control stands
    setupStack,                \* open setupPlayer frames: <<name1, name2>> each
    depth,                     \* open restart() frames (start -> restart -> start)
    gameBoardFilledCellCount,  \* gameLoop: its local copy of the counter
    curPlayer,                 \* gameLoop: the player of the current turn
    ret,                       \* gameLoop: what the last setPlayerPosition call returned
    call,                      \* direct calls: the call under observation and its result
    alerts,                    \* announcements of the current gameLoop, in order
    lastMover,                 \* the player of the last successful placement of this game
    exitCount                  \* how many times the exit message was written

vars == <<board, filledCellCount, player1, player2, pc, setupStack, depth,
          gameBoardFilledCellCount, curPlayer, ret, call, alerts, lastMover,
          exitCount>>

boardVars == <<board, filledCellCount>>
playerVars == <<player1, player2>>
loopVars == <<gameBoardFilledCellCount, curPlayer, alerts, lastMover>>

\* What the operator can type.
Names == {"ANN", "BOB"}
Marks == {"X", "O"}
CellInputs == {NaN} \cup {Num(n) : n \in (1 - CellSlack) .. (9 + CellSlack)}

NoCall == [fn |-> "none", cell |-> NaN, mark |-> Empty, ret |-> FALSE, threw |-> FALSE]

Init ==
    /\ board = EmptyBoard
    /\ filledCellCount = 0
    /\ player1 = Null
    /\ player2 = Null
    /\ pc = "start"
    /\ setupStack = <<>>
    /\ depth = 0
    /\ gameBoardFilledCellCount = 0
    /\ curPlayer = Null
    /\ ret = FALSE
    /\ call = NoCall
    /\ alerts = <<>>
    /\ lastMover = Null
    /\ exitCount = 0

\* ------------------------------------------------------------------------
\* Game: the program, one action per step between two blocking dialogues
\* ------------------------------------------------------------------------
\* Mutant: start() sets the players up every time.
StartAlwaysSetup ==
    /\ pc = "start"
    /\ pc' = "setupPlayer"
    /\ UNCHANGED <<boardVars, playerVars, setupStack, depth, loopVars, ret, call, exitCount>>

\* start(): set the players up when there are none, else go to the game loop.
Start ==
    /\ pc = "start"
    /\ pc' = IF player1 = Null /\ player2 = Null THEN "setupPlayer" ELSE "gameLoop"
    /\ UNCHANGED <<boardVars, playerVars, setupStack, depth, loopVars, ret, call, exitCount>>

\* setupPlayer(), lines 164-171: the two name prompts of a new frame; equal
\* names alert and call setupPlayer again with this frame left open.
SetupPrompt(name1, name2) ==
    /\ pc = "setupPlayer"
    /\ name1 = name2 => Len(setupStack) < MaxSameNames
    /\ setupStack' = Append(setupStack, <<name1, name2>>)
    /\ pc' = IF name1 = name2 THEN "setupPlayer" ELSE "setupAssign"
    /\ UNCHANGED <<boardVars, playerVars, depth, loopVars, ret, call, exitCount>>

\* setupPlayer(), lines 173-175: the innermost open frame creates the two
\* players from its own name1 and name2 and returns, to the frame that called
\* it (which goes on at line 173) or to start().
SetupAssign ==
    /\ pc = "setupAssign"
    /\ LET frame == setupStack[Len(setupStack)]
       IN  /\ player1' = createPlayer(frame[1], "X")
           /\ player2' = createPlayer(frame[2], "O")
    /\ setupStack' = SubSeq(setupStack, 1, Len(setupStack) - 1)
    /\ pc' = IF Len(setupStack) > 1 THEN "setupAssign" ELSE "gameLoop"
    /\ UNCHANGED <<boardVars, depth, loopVars, ret, call, exitCount>>

\* gameLoop(), lines 201-204: read the counter once, before the loop.
GameLoopEnter ==
    /\ pc = "gameLoop"
    /\ gameBoardFilledCellCount' = filledCellCount
    /\ alerts' = <<>>
    /\ lastMover' = Null
    /\ pc' = "loopTest"
    /\ UNCHANGED <<boardVars, playerVars, setupStack, depth, curPlayer, ret, call, exitCount>>

\* Mutant: "O" moves on an even count.
TurnOfOdd(count) == IF count % 2 = 1 THEN player1 ELSE player2

\* Line 208: whose turn it is on a given counter value.
TurnOf(count) == IF count % 2 = 0 THEN player1 ELSE player2

\* gameLoop(), lines 207-210: the while test and the choice of the player.
LoopTest ==
    /\ pc = "loopTest"
    /\ IF gameBoardFilledCellCount # totalCellCount
       THEN /\ curPlayer' = TurnOf(gameBoardFilledCellCount)
            /\ pc' = "turn"
       ELSE /\ curPlayer' = curPlayer
            /\ pc' = "playAgain"
    /\ UNCHANGED <<boardVars, playerVars, setupStack, depth,
                   gameBoardFilledCellCount, ret, call, alerts, lastMover,
                   exitCount>>

\* Mutant: the prompt is not repeated after a rejected cell number.
TurnNoRetry(cellNumber) ==
    /\ pc = "turn"
    /\ LET r == setPlayerPosition(board, filledCellCount, cellNumber,
                                  getPlayerMark(curPlayer))
       IN  /\ board' = r.board
           /\ filledCellCount' = r.filledCellCount
           /\ ret' = r.ret
           /\ pc' = IF r.threw THEN "crashed" ELSE "placed"
           /\ lastMover' = IF r.ret THEN curPlayer ELSE lastMover
    /\ UNCHANGED <<playerVars, setupStack, depth, gameBoardFilledCellCount,
                   curPlayer, call, alerts, exitCount>>

\* gameLoop(), lines 215-217: one round of the do-while loop: the prompt
\* (its text parsed by parseInt) and the setPlayerPosition call on it.
Turn(cellNumber) ==
    /\ pc = "turn"
    /\ LET r == setPlayerPosition(board, filledCellCount, cellNumber,
                                  getPlayerMark(curPlayer))
       IN  /\ board' = r.board
           /\ filledCellCount' = r.filledCellCount
           /\ ret' = r.ret
           /\ pc' = IF r.threw THEN "crashed"
                    ELSE IF r.ret THEN "placed" ELSE "turn"
           /\ lastMover' = IF r.ret THEN curPlayer ELSE lastMover
    /\ UNCHANGED <<playerVars, setupStack, depth, gameBoardFilledCellCount,
                   curPlayer, call, alerts, exitCount>>

Won(player) == [text |-> "won", name |-> getPlayerName(player)]
Tie == [text |-> "tie", name |-> ""]

\* Mutant: the tie test comes before the win test.
OutcomeTieFirst(b, count, player) ==
    IF count = totalCellCount THEN <<Tie>>
    ELSE IF checkWinner(b, player) THEN <<Won(player)>>
    ELSE <<>>

\* Mutant: the win test is skipped.
OutcomeNoWin(b, count, player) ==
    IF count = totalCellCount THEN <<Tie>> ELSE <<>>

\* Lines 221-233: what is announced after a placement by player that left
\* grid b with count filled cells: the win, else the tie, else nothing.
Outcome(b, count, player) ==
    IF checkWinner(b, player) THEN <<Won(player)>>
    ELSE IF count = totalCellCount THEN <<Tie>>
    ELSE <<>>

\* gameLoop(), lines 219-233: after the placement, refresh the local counter,
\* announce a win or a tie and leave the loop, or go round again.
AfterPlace ==
    /\ pc = "placed"
    /\ gameBoardFilledCellCount' = filledCellCount
    /\ LET out == Outcome(board, filledCellCount, curPlayer)
       IN  /\ alerts' = alerts \o out
           /\ pc' = IF out # <<>> THEN "playAgain" ELSE "loopTest"
    /\ UNCHANGED <<boardVars, playerVars, setupStack, depth, curPlayer, ret,
                   call, lastMover, exitCount>>

\* start(), lines 189-193: "Play again?"; yes calls restart(), no writes the
\* exit message and returns.
PlayAgain(answer) ==
    /\ pc = "playAgain"
    /\ answer => depth < MaxRestarts
    /\ IF answer
       THEN /\ depth' = depth + 1
            /\ pc' = "restart"
            /\ exitCount' = exitCount
       ELSE /\ depth' = depth
            /\ exitCount' = exitCount + 1
            /\ pc' = IF depth = 0 THEN "done" ELSE "unwind"
    /\ UNCHANGED <<boardVars, playerVars, setupStack, loopVars, ret, call>>

\* Mutant: restart() does not reset the board.
RestartNoReset(rename) ==
    /\ pc = "restart"
    /\ player1' = IF rename THEN Null ELSE player1
    /\ player2' = IF rename THEN Null ELSE player2
    /\ pc' = "start"
    /\ UNCHANGED <<boardVars, setupStack, depth, loopVars, ret, call, exitCount>>

\* restart(), lines 242-248: "Do you want to rename players?", then
\* resetBoard() and start().
Restart(rename) ==
    /\ pc = "restart"
    /\ player1' = IF rename THEN Null ELSE player1
    /\ player2' = IF rename THEN Null ELSE player2
    /\ LET r == resetBoard(board, filledCellCount)
       IN  /\ board' = r.board
           /\ filledCellCount' = r.filledCellCount
    /\ pc' = "start"
    /\ UNCHANGED <<setupStack, depth, loopVars, ret, call, exitCount>>

\* Mutant: the exit message is written after the if, so every returning
\* start() writes it again.
UnwindPrintsExit ==
    /\ pc = "unwind"
    /\ depth > 0
    /\ depth' = depth - 1
    /\ exitCount' = exitCount + 1
    /\ pc' = IF depth = 1 THEN "done" ELSE "unwind"
    /\ UNCHANGED <<boardVars, playerVars, setupStack, loopVars, ret, call>>

\* The return of an inner start() into restart() and of that restart() into
\* the start() that called it, which has nothing left to do.
Unwind ==
    /\ pc = "unwind"
    /\ depth > 0
    /\ depth' = depth - 1
    /\ pc' = IF depth = 1 THEN "done" ELSE "unwind"
    /\ UNCHANGED <<boardVars, playerVars, setupStack, loopVars, ret, call, exitCount>>

Next ==
    \/ Start
    \/ \E name1 \in Names, name2 \in Names : SetupPrompt(name1, name2)
    \/ SetupAssign
    \/ GameLoopEnter
    \/ LoopTest
    \/ \E cellNumber \in CellInputs : Turn(cellNumber)
    \/ AfterPlace
    \/ \E answer \in BOOLEAN : PlayAgain(answer)
    \/ \E rename \in BOOLEAN : Restart(rename)
    \/ Unwind

\* The program as it runs.
Spec == Init /\ [][Next]_vars

\* A round of the turn prompt in which the player types the number of an
\* empty cell.
GoodTurn == \E cellNumber \in CellInputs : Turn(cellNumber) /\ pc' = "placed"

\* The program up to the end of its first gameLoop. (Every later gameLoop
\* starts as the first one does, see C12, with one of the same pairs of
\* players.)
NextGame ==
    \/ Start
    \/ \E name1 \in Names, name2 \in Names : SetupPrompt(name1, name2)
    \/ SetupAssign
    \/ GameLoopEnter
    \/ LoopTest
    \/ \E cellNumber \in CellInputs : Turn(cellNumber)
    \/ AfterPlace

\* That program with gameLoop's own steps always taken: they are
\* straight-line code between two prompts. Nothing is assumed of what the
\* players type, or of whether they type at all.
SpecFair ==
    /\ Init
    /\ [][NextGame]_vars
    /\ WF_vars(GameLoopEnter)
    /\ WF_vars(LoopTest)
    /\ WF_vars(AfterPlace)

\* ------------------------------------------------------------------------
\* The gameBoard and checkWinner functions called directly, with any
\* arguments, on any grid. The grid is built from the one the module is
\* created with by successful setPlayerPosition calls and resetBoard calls;
\* then one call is made and recorded, with its arguments and its result, in
\* `call`. (A rejected call changes nothing and a successful one leaves a
\* grid that the building calls reach too, so the calls that could follow
\* the recorded one start from states already covered.)
\* ------------------------------------------------------------------------
progVars == <<playerVars, pc, setupStack, depth, loopVars, ret, exitCount>>

BuildPlace(cellNumber, playerMark) ==
    /\ call = NoCall
    /\ LET r == setPlayerPosition(board, filledCellCount, cellNumber, playerMark)
       IN  /\ r.ret
           /\ board' = r.board
           /\ filledCellCount' = r.filledCellCount
    /\ UNCHANGED <<progVars, call>>

BuildReset ==
    /\ call = NoCall
    /\ filledCellCount > 0
    /\ LET r == resetBoard(board, filledCellCount)
       IN  /\ board' = r.board
           /\ filledCellCount' = r.filledCellCount
    /\ UNCHANGED <<progVars, call>>

CallSetPlayerPosition(cellNumber, playerMark) ==
    /\ call = NoCall
    /\ LET r == setPlayerPosition(board, filledCellCount, cellNumber, playerMark)
       IN  /\ board' = r.board
           /\ filledCellCount' = r.filledCellCount
           /\ call' = [fn |-> "setPlayerPosition", cell |-> cellNumber,
                       mark |-> playerMark, ret |-> r.ret, threw |-> r.threw]
    /\ UNCHANGED progVars

CallResetBoard ==
    /\ call = NoCall
    /\ LET r == resetBoard(board, filledCellCount)
       IN  /\ board' = r.board
           /\ filledCellCount' = r.filledCellCount
    /\ call' = [NoCall EXCEPT !.fn = "resetBoard"]
    /\ UNCHANGED progVars

\* A second resetBoard() call, right after a recorded one.
CallResetBoardAgain ==
    /\ call = [NoCall EXCEPT !.fn = "resetBoard"]
    /\ LET r == resetBoard(board, filledCellCount)
       IN  /\ board' = r.board
           /\ filledCellCount' = r.filledCellCount
    /\ call' = [NoCall EXCEPT !.fn = "resetBoard twice"]
    /\ UNCHANGED progVars

CallCheckWinner(name, playerMark) ==
    /\ call = NoCall
    /\ call' = [NoCall EXCEPT !.fn = "checkWinner", !.mark = playerMark,
                              !.ret = checkWinner(board, createPlayer(name, playerMark))]
    /\ UNCHANGED <<boardVars, progVars>>

NextFn ==
    \/ \E cellNumber \in CellInputs, playerMark \in Marks :
          BuildPlace(cellNumber, playerMark)
    \/ BuildReset
    \/ \E cellNumber \in CellInputs, playerMark \in Marks :
          CallSetPlayerPosition(cellNumber, playerMark)
    \/ CallResetBoard
    \/ CallResetBoardAgain
    \/ \E name \in Names, playerMark \in Marks : CallCheckWinner(name, playerMark)

\* The functions under direct call.
SpecFn == Init /\ [][NextFn]_vars

\* ------------------------------------------------------------------------
\* getBoard() and a caller that writes through the value it returns
\* ------------------------------------------------------------------------
\* An array element that refers to a row: the grid's own row object number
\* id, or an array the caller made.
OwnRow(id) == [own |-> TRUE, id |-> id]
CallerRow == [own |-> FALSE, id |-> 0]

\* getBoard(): `[...board]`, a new outer array whose elements are the
\* grid's own row objects.
getBoard(b) == [i \in DOMAIN b |-> OwnRow(i)]

\* The grid after `g[i][j] = v` on a value g that getBoard() returned: the
\* write lands in the row object g[i] refers to.
WriteCellThrough(b, g, i, j, v) ==
    IF g[i].own THEN [b EXCEPT ![g[i].id][j] = v] ELSE b

\* The grid after `g[i] = <a new array>` on a value g that getBoard()
\* returned: only the caller's outer array changes.
SetRowThrough(b, g, i) ==
    LET g2 == [g EXCEPT ![i] = CallerRow] IN b

CallGetBoardWriteCell(i, j, v) ==
    /\ call = NoCall
    /\ board' = WriteCellThrough(board, getBoard(board), i, j, v)
    /\ call' = [fn |-> "getBoard()[i][j] = v", cell |-> Num(rows * i + j + 1),
                mark |-> v, ret |-> FALSE, threw |-> FALSE]
    /\ UNCHANGED <<filledCellCount, progVars>>

CallGetBoardSetRow(i) ==
    /\ call = NoCall
    /\ board' = SetRowThrough(board, getBoard(board), i)
    /\ call' = [fn |-> "getBoard()[i] = row", cell |-> Num(i),
                mark |-> Empty, ret |-> FALSE, threw |-> FALSE]
    /\ UNCHANGED <<filledCellCount, progVars>>

NextView ==
    \/ \E cellNumber \in CellInputs, playerMark \in Marks :
          BuildPlace(cellNumber, playerMark)
    \/ BuildReset
    \/ \E i \in RowIdx, j \in ColIdx, v \in Marks : CallGetBoardWriteCell(i, j, v)
    \/ \E i \in RowIdx : CallGetBoardSetRow(i)

\* getBoard() under a caller that writes through its result.
SpecView == Init /\ [][NextView]_vars

\* ------------------------------------------------------------------------
\* Vocabulary of the properties
\* ------------------------------------------------------------------------
\* The 8 lines of the grid: 3 rows, 3 columns, 2 diagonals.
Lines ==
    {{<<r, c>> : c \in 0 .. 2} : r \in 0 .. 2}
    \cup {{<<r, c>> : r \in 0 .. 2} : c \in 0 .. 2}
    \cup {{<<i, i>> : i \in 0 .. 2}, {<<i, 2 - i>> : i \in 0 .. 2}}

\* mark holds all three cells of at least one line of grid b.
HasLine(b, mark) == \E L \in Lines : \A p \in L : b[p[1]][p[2]] = mark

\* The number of non-empty cells of grid b.
NonEmptyCount(b) ==
    Cardinality({p \in (0 .. 2) \X (0 .. 2) : b[p[1]][p[2]] # Empty})

\* The cell a cell number 1..9 names, row-major.
DivRow(n) == (n - 1) \div 3
ModCol(n) == (n - 1) % 3

\* This step is the recorded direct call of setPlayerPosition.
DirectPlaceCall == call = NoCall /\ call'.fn = "setPlayerPosition"

\* This step writes a mark into an empty cell.
MarksACell == \E i \in 0 .. 2, j \in 0 .. 2 : board[i][j] = Empty /\ board'[i][j] # Empty

\* gameLoop is running (between its entry and the end of its loop).
InLoop == pc \in {"loopTest", "turn", "placed"}

\* ------------------------------------------------------------------------
\* Properties
\* ------------------------------------------------------------------------
\* C1: whenever gameLoop is entered, both players exist and their names
\* differ (setupPlayer never leaves two players with equal names).
C1_DistinctNames ==
    pc = "gameLoop" =>
        /\ player1 # Null
        /\ player2 # Null
        /\ getPlayerName(player1) # getPlayerName(player2)

\* C2: the successful placement made when k cells are filled (k in 0..8) is
\* made by player1 with "X" when k is even and by player2 with "O" when k is
\* odd, it writes exactly that mark into one empty cell, and its player is
\* not the player of the previous successful placement of the same game.
C2_TurnsAlternate ==
    [][(pc = "turn" /\ pc' = "placed") =>
          LET k == filledCellCount
          IN  /\ k \in 0 .. 8
              /\ filledCellCount' = k + 1
              /\ curPlayer = (IF k % 2 = 0 THEN player1 ELSE player2)
              /\ getPlayerMark(curPlayer) = (IF k % 2 = 0 THEN "X" ELSE "O")
              /\ \E i \in 0 .. 2, j \in 0 .. 2 :
                    /\ board[i][j] = Empty
                    /\ board' = [board EXCEPT ![i][j] = getPlayerMark(curPlayer)]
              /\ lastMover # curPlayer
              /\ lastMover' = curPlayer]_vars

\* The ninth placement of a game has just been made, by player1, after
\* player2 made the eighth.
C2_Witness ==
    /\ pc = "placed"
    /\ filledCellCount = 9
    /\ lastMover = player1
    /\ getPlayerMark(curPlayer) = "X"

\* C3: a direct checkWinner(player) call returns true iff the player's mark
\* holds all three cells of one of the 8 lines (false on the empty grid).
C3_CheckWinnerIffLine ==
    call.fn = "checkWinner" => (call.ret <=> HasLine(board, call.mark))

\* checkWinner answered true for "O" on a grid whose only complete line is
\* the diagonal from top-right to bottom-left.
C3_Witness ==
    /\ call.fn = "checkWinner"
    /\ call.mark = "O"
    /\ call.ret
    /\ \A L \in Lines :
          (\A p \in L : board[p[1]][p[2]] = "O") <=> L = {<<0, 2>>, <<1, 1>>, <<2, 0>>}

\* C4: while the loop goes on (a prompt or a placement can still follow) no
\* mark has a complete line and nothing is announced; when the loop has
\* ended, the mover's win was announced iff the mover's mark has a complete
\* line, and the loop ended only on a complete line or a full grid.
C4_WinEndsLoop ==
    /\ pc \in {"loopTest", "turn"} =>
          /\ ~HasLine(board, "X")
          /\ ~HasLine(board, "O")
          /\ alerts = <<>>
    /\ pc = "placed" => alerts = <<>>
    /\ pc = "playAgain" =>
          /\ (Won(curPlayer) \in {alerts[i] : i \in DOMAIN alerts})
                <=> HasLine(board, getPlayerMark(curPlayer))
          /\ HasLine(board, getPlayerMark(curPlayer)) \/ filledCellCount = 9

\* Scenario 1: X at 1, 2, 3 and O at 4, 5; the win of player1 is announced
\* and the loop has ended with 5 cells filled.
C4_Witness ==
    /\ pc = "playAgain"
    /\ filledCellCount = 5
    /\ \A j \in 0 .. 2 : board[0][j] = "X"
    /\ board[1][0] = "O" /\ board[1][1] = "O"
    /\ alerts = <<Won(player1)>>

\* C5: a finished game has exactly one announcement; it is the tie iff the
\* grid is full and no mark has a complete line, and otherwise it is the win
\* of the mover, whose mark has a complete line (also when the winning
\* placement is the ninth).
C5_OneOutcome ==
    pc = "playAgain" =>
        /\ Len(alerts) = 1
        /\ alerts[1] = Tie <=>
              /\ filledCellCount = 9
              /\ ~HasLine(board, "X")
              /\ ~HasLine(board, "O")
        /\ alerts[1] # Tie =>
              /\ alerts[1] = Won(curPlayer)
              /\ HasLine(board, getPlayerMark(curPlayer))

\* The ninth placement completed a line: the win is announced, not the tie.
C5_Witness ==
    /\ pc = "playAgain"
    /\ filledCellCount = 9
    /\ HasLine(board, "X")
    /\ alerts = <<Won(player1)>>

\* C6: a direct setPlayerPosition call with an integer outside 1..9 returns
\* false, does not raise, and leaves the grid and the counter as they were.
C6_OutOfRangeRejected ==
    [][(/\ DirectPlaceCall
        /\ ~isNaN(call'.cell)
        /\ call'.cell[1] \notin 1 .. 9) =>
          /\ ~call'.ret
          /\ ~call'.threw
          /\ board' = board
          /\ filledCellCount' = filledCellCount]_vars

\* Cell number 10 was rejected on a grid with free cells.
C6_Witness ==
    /\ call.fn = "setPlayerPosition"
    /\ call.cell = Num(10)
    /\ ~call.ret
    /\ filledCellCount = 4

\* C7: a direct setPlayerPosition call with a cell number in 1..9 whose cell
\* holds a mark returns false and leaves the grid and the counter as they
\* were.
C7_OccupiedRejected ==
    [][(/\ DirectPlaceCall
        /\ ~isNaN(call'.cell)
        /\ call'.cell[1] \in 1 .. 9
        /\ board[DivRow(call'.cell[1])][ModCol(call'.cell[1])] # Empty) =>
          /\ ~call'.ret
          /\ ~call'.threw
          /\ board' = board
          /\ filledCellCount' = filledCellCount]_vars

\* "O" was refused on cell 5, which holds "X".
C7_Witness ==
    /\ call.fn = "setPlayerPosition"
    /\ call.cell = Num(5)
    /\ call.mark = "O"
    /\ ~call.ret
    /\ board[1][1] = "X"

\* C8: a direct setPlayerPosition call with a cell number n in 1..9 whose
\* cell is empty returns true and writes the mark into the cell of row
\* (n-1) div 3 and column (n-1) mod 3, and into no other cell.
C8_PlacesAtDivMod ==
    [][(/\ DirectPlaceCall
        /\ ~isNaN(call'.cell)
        /\ call'.cell[1] \in 1 .. 9
        /\ board[DivRow(call'.cell[1])][ModCol(call'.cell[1])] = Empty) =>
          /\ call'.ret
          /\ ~call'.threw
          /\ board' = [board EXCEPT
                         ![DivRow(call'.cell[1])][ModCol(call'.cell[1])] = call'.mark]]_vars

\* "O" was placed by cell number 9 into the last cell of the last row, all
\* other cells staying empty.
C8_Witness ==
    /\ call.fn = "setPlayerPosition"
    /\ call.cell = Num(9)
    /\ call.ret
    /\ board = [EmptyBoard EXCEPT ![2][2] = "O"]

\* C9: the counter equals the number of non-empty cells and lies in 0..9.
C9_CountMatchesCells ==
    /\ filledCellCount = NonEmptyCount(board)
    /\ filledCellCount \in 0 .. 9

\* A call was rejected on the full grid.
C9_Witness ==
    /\ call.fn = "setPlayerPosition"
    /\ ~call.ret
    /\ filledCellCount = 9
    /\ NonEmptyCount(board) = 9

\* C10: a setPlayerPosition call that returns true (a step that writes a
\* mark into an empty cell) adds exactly 1 to the counter and starts with at
\* most 8 filled cells; the counter never exceeds 9.
C10_CountStepsByOne ==
    /\ [](filledCellCount <= 9)
    /\ [][((DirectPlaceCall /\ call'.ret) \/ MarksACell) =>
             /\ filledCellCount' = filledCellCount + 1
             /\ filledCellCount <= 8]_vars

\* The recorded call filled the ninth cell.
C10_Witness ==
    /\ call.fn = "setPlayerPosition"
    /\ call.ret
    /\ filledCellCount = 9

\* C11: a direct resetBoard() call leaves all 9 cells empty and the counter
\* 0, whatever the grid was, and a second call right after it changes
\* nothing.
C11_ResetIdempotent ==
    /\ [][(call = NoCall /\ call'.fn = "resetBoard") =>
             /\ board' = EmptyBoard
             /\ filledCellCount' = 0]_vars
    /\ [][(call.fn = "resetBoard" /\ call'.fn = "resetBoard twice") =>
             /\ board' = board
             /\ filledCellCount' = filledCellCount
             /\ board' = EmptyBoard
             /\ filledCellCount' = 0]_vars

\* resetBoard() has been called twice in a row.
C11_Witness ==
    /\ call.fn = "resetBoard twice"
    /\ board = EmptyBoard
    /\ filledCellCount = 0

\* C12: whenever gameLoop is entered, all 9 cells are empty and the counter
\* is 0, and the first successful placement of every game is made by
\* player1 with "X" on the empty grid.
C12_GameStartsEmpty ==
    /\ [](pc = "gameLoop" => (board = EmptyBoard /\ filledCellCount = 0))
    /\ [][(pc = "gameLoop") =>
             (pc' = "loopTest" /\ gameBoardFilledCellCount' = 0)]_vars
    /\ [][(pc = "turn" /\ pc' = "placed" /\ lastMover = Null) =>
             /\ board = EmptyBoard
             /\ filledCellCount = 0
             /\ curPlayer = player1
             /\ getPlayerMark(curPlayer) = "X"]_vars

\* gameLoop is entered through restart with the grid empty, after a game
\* that was won with 5 cells filled.
C12_Witness ==
    /\ pc = "gameLoop"
    /\ depth = 1
    /\ gameBoardFilledCellCount = 5
    /\ alerts # <<>>
    /\ alerts[1].text = "won"
    /\ board = EmptyBoard
    /\ filledCellCount = 0

\* Both players exist, with the marks "X" and "O".
PlayersSet ==
    /\ player1 # Null
    /\ player2 # Null
    /\ getPlayerMark(player1) = "X"
    /\ getPlayerMark(player2) = "O"

\* C13: restart() either leaves both players as they are or clears both;
\* start() changes no player and asks for names exactly when there are no
\* players (so a declined rename goes straight to the next game with the
\* same players, and an accepted one to setupPlayer before any move); the
\* players change in no step other than restart() and the assignments of
\* setupPlayer.
C13_PlayersKept ==
    /\ []((player1 = Null) <=> (player2 = Null))
    /\ [](pc \in {"gameLoop", "loopTest", "turn", "placed", "playAgain", "restart"}
             => PlayersSet)
    /\ [](pc = "setupPlayer" => player1 = Null)
    /\ [][(pc = "restart") =>
             /\ pc' = "start"
             /\ \/ UNCHANGED playerVars
                \/ player1' = Null /\ player2' = Null]_vars
    /\ [][(pc = "start") =>
             /\ UNCHANGED playerVars
             /\ player1 # Null => pc' = "gameLoop"
             /\ player1 = Null => pc' = "setupPlayer"]_vars
    /\ [][(playerVars' # playerVars) => pc \in {"restart", "setupAssign"}]_vars

\* After a restart whose rename was declined: start() is about to run with
\* the players of the game before and the grid empty.
C13_Witness ==
    /\ pc = "start"
    /\ depth = 1
    /\ PlayersSet
    /\ getPlayerName(player1) = "BOB"
    /\ getPlayerName(player2) = "ANN"
    /\ board = EmptyBoard

\* Cell input c cannot be placed on grid b: not a number, outside 1..9, or
\* naming an occupied cell.
Rejectable(b, c) ==
    \/ isNaN(c)
    \/ c[1] \notin 1 .. 9
    \/ b[DivRow(c[1])][ModCol(c[1])] # Empty

\* C14: a round of the turn prompt that does not place a mark returns to the
\* same prompt with the same player, the same grid and the same counters; no
\* round that places a mark is the round of an out-of-range, non-numeric or
\* occupied choice; the player of the
\* turn changes only at the head of the loop, after that player's successful
\* placement (or at the first turn of a game).
C14_RejectedKeepsTurn ==
    /\ [][(pc = "turn" /\ pc' # "placed") =>
             /\ pc' = "turn"
             /\ ~ret'
             /\ UNCHANGED <<board, filledCellCount, curPlayer,
                            gameBoardFilledCellCount, lastMover, alerts>>]_vars
    /\ [][(pc = "turn" /\ pc' = "placed") =>
             \A c \in CellInputs : Rejectable(board, c) => ~Turn(c)]_vars
    /\ [][(curPlayer' # curPlayer) =>
             /\ pc = "loopTest"
             /\ lastMover = Null \/ lastMover = curPlayer]_vars

\* player2 is asked again, with 3 cells filled, after a rejected choice.
C14_Witness ==
    /\ pc = "turn"
    /\ ~ret
    /\ filledCellCount = 3
    /\ curPlayer = player2

\* C15: if the player of the turn, asked again and again, at some time types
\* the number of an empty cell, every gameLoop that is entered ends, with
\* exactly one announcement (a win or the tie); whatever is typed, a
\* gameLoop that is entered either ends or stays for ever at the prompt of
\* one turn, which always has an empty cell to offer; and a game fills at
\* most 9 cells.
C15_LoopEnds ==
    /\ WF_vars(GoodTurn) =>
          ((pc = "gameLoop") ~> (pc = "playAgain" /\ Len(alerts) = 1))
    /\ (pc = "gameLoop") ~> (pc = "playAgain" \/ [](pc = "turn"))
    /\ [](pc = "turn" => ENABLED GoodTurn)
    /\ [](InLoop => filledCellCount <= 9)
    /\ [][(pc = "gameLoop") => filledCellCount' = 0]_vars

\* A game has ended in a tie after 9 placements.
C15_Witness ==
    /\ pc = "playAgain"
    /\ filledCellCount = 9
    /\ ~HasLine(board, "X")
    /\ ~HasLine(board, "O")
    /\ alerts = <<Tie>>

\* C16: no write made through the value getBoard() returns (replacing one of
\* its rows, or writing a cell of one of its rows) changes the grid or the
\* counter.
C16_GetBoardIsolated ==
    [][(/\ call = NoCall
        /\ call'.fn \in {"getBoard()[i][j] = v", "getBoard()[i] = row"}) =>
          /\ board' = board
          /\ filledCellCount' = filledCellCount]_vars

\* C17: a turn input that parseInt turns into NaN passes the range guard of
\* setPlayerPosition, which still returns false without raising and leaves
\* the grid and the counter as they were; the same player is at the same
\* prompt afterwards.
C17_NaNRejected ==
    /\ [](~JsLt(NaN, Num(1)) /\ ~JsGt(NaN, Num(9)))
    /\ [](pc = "turn" =>
            LET r == setPlayerPosition(board, filledCellCount, NaN,
                                       getPlayerMark(curPlayer))
            IN  /\ ~r.ret
                /\ ~r.threw
                /\ r.board = board
                /\ r.filledCellCount = filledCellCount)
    /\ [][Turn(NaN) =>
             /\ pc' = "turn"
             /\ ~ret'
             /\ UNCHANGED <<board, filledCellCount, curPlayer,
                            gameBoardFilledCellCount, lastMover, alerts>>]_vars

\* player1 is asked again on the empty grid of a game entered through
\* restart: the choice just rejected named no occupied cell.
C17_Witness ==
    /\ pc = "turn"
    /\ ~ret
    /\ depth = 1
    /\ board = EmptyBoard
    /\ curPlayer = player1

\* C18: the exit message is written at most once, by the "no" to "Play
\* again?"; from then on the program only returns from its open restart()
\* frames, one per step, changing nothing else, until none is left.
C18_ExitOnce ==
    /\ [](exitCount <= 1)
    /\ []((pc \in {"unwind", "done"}) <=> (exitCount = 1))
    /\ [](pc = "unwind" => (depth > 0 /\ ENABLED Unwind))
    /\ [](pc = "done" => depth = 0)
    /\ [][(exitCount' # exitCount) =>
             (pc = "playAgain" /\ exitCount' = exitCount + 1)]_vars
    /\ [][(pc \in {"unwind", "done"}) =>
             /\ pc' \in {"unwind", "done"}
             /\ depth' = depth - 1
             /\ UNCHANGED <<board, filledCellCount, player1, player2,
                            setupStack, gameBoardFilledCellCount, curPlayer,
                            ret, alerts, lastMover, exitCount>>]_vars

\* "No" was answered in a game entered through restart: the exit message is
\* written and one restart() frame has still to return.
C18_Witness ==
    /\ pc = "unwind"
    /\ depth = 1
    /\ exitCount = 1

\* C19: in no state of the program do both marks have a complete line.
C19_OneLineOwner == ~(HasLine(board, "X") /\ HasLine(board, "O"))

\* "O" has completed a line with the eighth placement; "X" has none.
C19_Witness ==
    /\ pc = "playAgain"
    /\ filledCellCount = 8
    /\ HasLine(board, "O")
    /\ ~HasLine(board, "X")

\* The number of cells of grid b that hold mark.
CountMark(b, mark) ==
    Cardinality({p \in (0 .. 2) \X (0 .. 2) : b[p[1]][p[2]] = mark})

\* C20: the grid holds as many "X" as "O" or one more, every cell is empty,
\* "X" or "O", and whenever gameLoop runs both players exist, player1 with
\* "X" and player2 with "O".
C20_MarkBalance ==
    /\ CountMark(board, "X") - CountMark(board, "O") \in {0, 1}
    /\ \A i \in 0 .. 2, j \in 0 .. 2 : board[i][j] \in {Empty, "X", "O"}
    /\ (pc = "gameLoop" \/ InLoop) => PlayersSet

\* The grid is full: 5 "X" and 4 "O".
C20_Witness ==
    /\ pc = "placed"
    /\ CountMark(board, "X") = 5
    /\ CountMark(board, "O") = 4

====
